---------------------------- MODULE Spec2Model ----------------------------
(***************************************************************************)
(* Bounding volumes of bevy_math: Aabb2d, Aabb3d, BoundingCircle and       *)
(* BoundingSphere with their volume algebra (contains, merge, grow,        *)
(* shrink, intersects), their construction from point clouds and from 3D   *)
(* shapes, and the validation of directions.                               *)
(*                                                                         *)
(* Numbers.  An f32 value x is represented by the integer x * Scale        *)
(* (fixed point, Scale units per 1.0).  A product of two values is held in *)
(* units of 1/Scale^2 until it is compared or rescaled.  Every operation   *)
(* is evaluated in the order the source evaluates it.  The calls the model *)
(* makes are the calls whose intermediate results are all representable in *)
(* this fixed point (the *_exact guards), so the arithmetic of the model   *)
(* is exact: f32 rounding is not part of it.                               *)
(*                                                                         *)
(* Calls.  The state is the record of the last call.  A call is made on    *)
(* inputs or, for the calls named Chained, on the volume that the last     *)
(* call returned, so that behaviours are sequences of calls on one volume. *)
(***************************************************************************)
EXTENDS Integers, Sequences, FiniteSets, TLC

\* fixed-point units per 1.0: halves, thirds and fifths are representable
Scale == 2 * 2 * 3 * 5

\* 2D boxes have corners on the grid 0..MaxBox2 (in units of 1.0)
MaxBox2 == 2
\* 3D boxes have corners on the grid 0..MaxBox3
MaxBox3 == 1
\* circle centers are on the grid 0..MaxCoord2
MaxCoord2 == 4
\* sphere centers are on the grid 0..MaxCoord3
MaxCoord3 == 2
\* circle radii are 0..MaxRadius2
MaxRadius2 == 3
\* sphere radii are 0..MaxRadius3
MaxRadius3 == 2
\* grow / shrink amounts are -0.5, 0, 0.5, .. MaxAmount per component
MaxAmount == 1
\* point clouds have 0..MaxCloud points
MaxCloud == 3
\* chained calls are made on volumes that reach at most MaxChain from the origin
MaxChain == 3

VARIABLES
    op,                 \* the method or function called last
    self,               \* its receiver: a volume, a shape, the points of a
                        \* from_point_cloud, the vector of a direction
    other,              \* its volume argument, or its translation and rotation
                        \* (the receiver when it has neither)
    amount,             \* its amount argument (0 when it has none)
    out,                \* the value it returns where no assertion stops it (the
                        \* receiver when it returns none)
    ret,                \* the bool it returns (FALSE when it returns none)
    panicked,           \* a debug_assert! of the call fails: the call panics in a
                        \* build with debug assertions
    nan,                \* the call divided by a zero length
    failed              \* an assert! or expect of the call fails: the call panics
                        \* in every build and returns nothing

vars == <<op, self, other, amount, out, ret, panicked, nan, failed>>

---------------------------------------------------------------------------
(* f32 and glam vector arithmetic                                          *)

\* x / y on values
Div(x, y) == IF y = 0 THEN 0 ELSE (x * Scale) \div y

\* x / y is representable
Div_exact(x, y) == y # 0 /\ (x * Scale) % y = 0

\* x / 2.
Half(x) == x \div 2

Half_exact(x) == x % 2 = 0

\* x * y on values
Mul(x, y) == (x * y) \div Scale

Mul_exact(x, y) == (x * y) % Scale = 0

RECURSIVE SqrtSearch(_, _, _)
SqrtSearch(n, lo, hi) ==
    IF lo >= hi THEN lo
    ELSE LET mid == (lo + hi + 1) \div 2
         IN  IF mid * mid <= n THEN SqrtSearch(n, mid, hi)
                               ELSE SqrtSearch(n, lo, mid - 1)

\* f32::sqrt of a squared value (units of 1/Scale^2), giving a value
Sqrt(n) == SqrtSearch(n, 0, IF n < 32768 THEN n ELSE 32768)

Sqrt_exact(n) == Sqrt(n) * Sqrt(n) = n

\* componentwise vector operations of Vec2 / Vec3
VAdd(u, v) == [i \in DOMAIN u |-> u[i] + v[i]]

VSub(u, v) == [i \in DOMAIN u |-> u[i] - v[i]]

VMin(u, v) == [i \in DOMAIN u |-> IF u[i] <= v[i] THEN u[i] ELSE v[i]]

VMax(u, v) == [i \in DOMAIN u |-> IF u[i] >= v[i] THEN u[i] ELSE v[i]]

\* v / 2.
VHalf(v) == [i \in DOMAIN v |-> Half(v[i])]

\* v * s
VMul(v, s) == [i \in DOMAIN v |-> Mul(v[i], s)]

\* v / s
VDiv(v, s) == [i \in DOMAIN v |-> Div(v[i], s)]

RECURSIVE SumSq(_, _)
SumSq(v, n) == IF n = 0 THEN 0 ELSE v[n] * v[n] + SumSq(v, n - 1)

\* Vec::length_squared, in units of 1/Scale^2
length_squared(v) == SumSq(v, Len(v))

\* Vec::distance_squared
distance_squared(u, v) == length_squared(VSub(u, v))

\* Vec::length
length(v) == Sqrt(length_squared(v))

\* cmplt_all with <= for <
cmple_all(u, v) == \A i \in DOMAIN u : u[i] <= v[i]

\* cmplt(..).all()
cmplt_all(u, v) == \A i \in DOMAIN u : u[i] < v[i]

\* cmpgt(..).all()
cmpgt_all(u, v) == \A i \in DOMAIN u : u[i] > v[i]

\* powi2_copysign without the copysign
powi2_unsigned(diff) == diff * diff

\* f32::powi(2).copysign(diff), in units of 1/Scale^2
powi2_copysign(diff) == IF diff >= 0 THEN diff * diff ELSE 0 - diff * diff

---------------------------------------------------------------------------
(* Aabb2d                                                                  *)

Aabb2d_contains(a, b) ==
    /\ b.min[1] >= a.min[1]
    /\ b.min[2] >= a.min[2]
    /\ b.max[1] <= a.max[1]
    /\ b.max[2] <= a.max[2]

Aabb2d_merged(a, b) == [min |-> VMin(a.min, b.min), max |-> VMax(a.max, b.max)]

\* Aabb2d_padded moving both corners inward
Aabb2d_padded_inward(a, amt) == [min |-> VAdd(a.min, amt[1]), max |-> VSub(a.max, amt[2])]

\* amt is the pair (amount.0, amount.1)
Aabb2d_padded(a, amt) == [min |-> VSub(a.min, amt[1]), max |-> VAdd(a.max, amt[2])]

\* Aabb2d_shrunk with the min of padded
Aabb2d_shrunk_min_of_padded(a, amt) ==
    [min |-> VSub(a.min, amt[1]), max |-> VSub(a.max, amt[2])]

Aabb2d_shrunk(a, amt) == [min |-> VAdd(a.min, amt[1]), max |-> VSub(a.max, amt[2])]

\* the debug_assert! of padded and shrunk
Aabb2d_debug_assert(b) == b.min[1] <= b.max[1] /\ b.min[2] <= b.max[2]

---------------------------------------------------------------------------
(* Aabb3d                                                                  *)

Aabb3d_contains(a, b) ==
    /\ b.min[1] >= a.min[1]
    /\ b.min[2] >= a.min[2]
    /\ b.min[3] >= a.min[3]
    /\ b.max[1] <= a.max[1]
    /\ b.max[2] <= a.max[2]
    /\ b.max[3] <= a.max[3]

\* Aabb3d_merge keeping the max of self
Aabb3d_merge_max_of_self(a, b) == [min |-> VMin(a.min, b.min), max |-> a.max]

Aabb3d_merge(a, b) == [min |-> VMin(a.min, b.min), max |-> VMax(a.max, b.max)]

\* Aabb3d_grow with the max of shrink
Aabb3d_grow_max_of_shrink(a, amt) == [min |-> VSub(a.min, amt), max |-> VSub(a.max, amt)]

Aabb3d_grow(a, amt) == [min |-> VSub(a.min, amt), max |-> VAdd(a.max, amt)]

Aabb3d_shrink(a, amt) == [min |-> VAdd(a.min, amt), max |-> VSub(a.max, amt)]

\* the debug_assert! of grow and shrink
Aabb3d_debug_assert(b) ==
    b.min[1] <= b.max[1] /\ b.min[2] <= b.max[2] /\ b.min[3] <= b.max[3]

\* (self.min + self.max) / 2.
Aabb3d_center(a) == VHalf(VAdd(a.min, a.max))

\* Aabb3d_bounding_sphere without the division of the diagonal by 2.0
Aabb3d_bounding_sphere_whole_diagonal(a) ==
    LET radius == length(VSub(a.min, a.max))
    IN  [center |-> Aabb3d_center(a), radius |-> radius]

Aabb3d_bounding_sphere(a) ==
    LET radius == Half(length(VSub(a.min, a.max)))
    IN  [center |-> Aabb3d_center(a), radius |-> radius]

\* every intermediate value of bounding_sphere is representable
bounding_sphere_exact(a) ==
    /\ Sqrt_exact(distance_squared(a.min, a.max))
    /\ Half_exact(length(VSub(a.min, a.max)))
    /\ \A i \in 1 .. 3 : Half_exact(a.min[i] + a.max[i])

\* Aabb3d_visible_area without the faces that y and z span
Aabb3d_visible_area_two_faces(a) ==
    LET b == VSub(a.max, a.min)
    IN  b[1] * (b[2] + b[3])

\* in units of 1/Scale^2
Aabb3d_visible_area(a) ==
    LET b == VSub(a.max, a.min)
    IN  b[1] * (b[2] + b[3]) + b[2] * b[3]

Aabb3d_intersects(a, volume) ==
    cmplt_all(a.min, volume.max) /\ cmpgt_all(a.max, volume.min)

---------------------------------------------------------------------------
(* BoundingCircle and BoundingSphere                                       *)

\* the debug_assert! of BoundingCircle::new / BoundingSphere::new
new_debug_assert(radius) == radius >= 0

\* BoundingCircle::new, BoundingSphere::new
new(center, radius) == [center |-> center, radius |-> radius]

\* BoundingCircle_contains without the radius of the other circle
BoundingCircle_contains_center_only(a, b) ==
    length(VSub(b.center, a.center)) <= a.radius

BoundingCircle_contains(a, b) ==
    LET furthest_point == length(VSub(b.center, a.center)) + b.radius
    IN  furthest_point <= a.radius

\* BoundingSphere_contains with < for <=
BoundingSphere_contains_strict(a, b) ==
    LET diff == a.radius - b.radius
    IN  distance_squared(a.center, b.center) < powi2_copysign(diff)

BoundingSphere_contains(a, b) ==
    LET diff == a.radius - b.radius
    IN  distance_squared(a.center, b.center) <= powi2_copysign(diff)

\* merge_case with > for >=
merge_case_strict(a, b) ==
    LET diff == VSub(b.center, a.center)
        len  == length(diff)
    IN  IF a.radius > len + b.radius THEN "self"
        ELSE IF b.radius > len + a.radius THEN "other"
        ELSE "new"

\* which of the three returns of merged / merge is taken
merge_case(a, b) ==
    LET diff == VSub(b.center, a.center)
        len  == length(diff)
    IN  IF a.radius >= len + b.radius THEN "self"
        ELSE IF b.radius >= len + a.radius THEN "other"
        ELSE "new"

\* BoundingCircle_merged with the radius difference the other way round
BoundingCircle_merged_flipped(a, b) ==
    LET diff == VSub(b.center, a.center)
        len  == length(diff)
    IN  IF a.radius >= len + b.radius THEN a
        ELSE IF b.radius >= len + a.radius THEN b
        ELSE LET dir == VDiv(diff, len)
             IN  [center |-> VAdd(VHalf(VAdd(a.center, b.center)),
                                  VMul(dir, Half(a.radius - b.radius))),
                  radius |-> Half(len + a.radius + b.radius)]

\* BoundingCircle_merged halving the distance only
BoundingCircle_merged_half_distance(a, b) ==
    LET diff == VSub(b.center, a.center)
        len  == length(diff)
    IN  IF a.radius >= len + b.radius THEN a
        ELSE IF b.radius >= len + a.radius THEN b
        ELSE LET dir == VDiv(diff, len)
             IN  [center |-> VAdd(VHalf(VAdd(a.center, b.center)),
                                  VMul(dir, Half(b.radius - a.radius))),
                  radius |-> Half(len) + a.radius + b.radius]

BoundingCircle_merged(a, b) ==
    LET diff == VSub(b.center, a.center)
        len  == length(diff)
    IN  IF a.radius >= len + b.radius THEN a
        ELSE IF b.radius >= len + a.radius THEN b
        ELSE LET dir == VDiv(diff, len)
             IN  [center |-> VAdd(VHalf(VAdd(a.center, b.center)),
                                  VMul(dir, Half(b.radius - a.radius))),
                  radius |-> Half(len + a.radius + b.radius)]

\* BoundingSphere_merge centered on the midpoint of the centers
BoundingSphere_merge_midpoint(a, b) ==
    LET diff == VSub(b.center, a.center)
        len  == length(diff)
    IN  IF a.radius >= len + b.radius THEN a
        ELSE IF b.radius >= len + a.radius THEN b
        ELSE [center |-> VHalf(VAdd(a.center, b.center)),
              radius |-> Half(len + a.radius + b.radius)]

\* BoundingSphere_merge comparing the radius with the distance alone
BoundingSphere_merge_distance_only(a, b) ==
    LET diff == VSub(b.center, a.center)
        len  == length(diff)
    IN  IF a.radius >= len THEN a
        ELSE IF b.radius >= len THEN b
        ELSE LET dir == VDiv(diff, len)
             IN  [center |-> VAdd(VHalf(VAdd(a.center, b.center)),
                                  VMul(dir, Half(b.radius - a.radius))),
                  radius |-> Half(len + a.radius + b.radius)]

BoundingSphere_merge(a, b) ==
    LET diff == VSub(b.center, a.center)
        len  == length(diff)
    IN  IF a.radius >= len + b.radius THEN a
        ELSE IF b.radius >= len + a.radius THEN b
        ELSE LET dir == VDiv(diff, len)
             IN  [center |-> VAdd(VHalf(VAdd(a.center, b.center)),
                                  VMul(dir, Half(b.radius - a.radius))),
                  radius |-> Half(len + a.radius + b.radius)]

\* every intermediate value of merged / merge is representable
merge_exact(a, b) ==
    LET diff == VSub(b.center, a.center)
        len  == length(diff)
        dir  == VDiv(diff, len)
        h    == Half(b.radius - a.radius)
    IN  /\ Sqrt_exact(length_squared(diff))
        /\ merge_case(a, b) = "new" /\ len # 0 =>
              /\ \A i \in DOMAIN diff : Div_exact(diff[i], len)
              /\ Half_exact(b.radius - a.radius)
              /\ \A i \in DOMAIN diff : Mul_exact(dir[i], h)
              /\ \A i \in DOMAIN diff : Half_exact(a.center[i] + b.center[i])
              /\ Half_exact(len + a.radius + b.radius)

\* padded / grow
BoundingCircle_padded(a, amt) == [center |-> a.center, radius |-> a.radius + amt]

BoundingSphere_grow(a, amt) == [center |-> a.center, radius |-> a.radius + amt]

\* shrunk / shrink
\* BoundingCircle_shrunk subtracting the radius from the amount
BoundingCircle_shrunk_swapped(a, amt) == [center |-> a.center, radius |-> amt - a.radius]

BoundingCircle_shrunk(a, amt) == [center |-> a.center, radius |-> a.radius - amt]

BoundingSphere_shrink(a, amt) == [center |-> a.center, radius |-> a.radius - amt]

\* BoundingSphere_intersects against the squared sum of the radii
BoundingSphere_intersects_squared(a, volume) ==
    LET delta_center == VSub(volume.center, a.center)
        dist_squared == length_squared(delta_center)
    IN  dist_squared <= (a.radius + volume.radius) * (a.radius + volume.radius)

\* compares the squared distance (units of 1/Scale^2) with the sum of the
\* radii (units of 1/Scale)
BoundingSphere_intersects(a, volume) ==
    LET delta_center == VSub(volume.center, a.center)
        dist_squared == length_squared(delta_center)
    IN  dist_squared <= (a.radius + volume.radius) * Scale


\* the debug_assert!s of padded / grow, shrunk / shrink
BoundingCircle_padded_asserts(a, amt) == amt >= 0 /\ new_debug_assert(a.radius + amt)

BoundingSphere_grow_asserts(a, amt) == amt >= 0

BoundingCircle_shrunk_asserts(a, amt) ==
    amt >= 0 /\ a.radius >= amt /\ new_debug_assert(a.radius - amt)

\* shrink without its first debug_assert!
BoundingSphere_shrink_asserts_radius_only(a, amt) == a.radius >= amt

BoundingSphere_shrink_asserts(a, amt) == amt >= 0 /\ a.radius >= amt

---------------------------------------------------------------------------
(* Quat and point clouds                                                   *)

\* Vec3::ZERO
ZERO == <<0, 0, 0>>

\* A Quat is held as the matrix of its rotation, one row per component of
\* the rotated vector.  The rotations of the model are the turns by a
\* multiple of 90 degrees about a coordinate axis: their matrices have the
\* entries -1, 0 and 1, so rotating is exact.
IDENTITY == <<<<1, 0, 0>>, <<0, 1, 0>>, <<0, 0, 1>>>>

\* Quat::from_rotation_x(FRAC_PI_2)
from_rotation_x_quarter == <<<<1, 0, 0>>, <<0, 0, 0 - 1>>, <<0, 1, 0>>>>

\* Quat::from_rotation_x(PI)
from_rotation_x_half == <<<<1, 0, 0>>, <<0, 0 - 1, 0>>, <<0, 0, 0 - 1>>>>

\* Quat::from_rotation_y(FRAC_PI_2)
from_rotation_y_quarter == <<<<0, 0, 1>>, <<0, 1, 0>>, <<0 - 1, 0, 0>>>>

\* Quat::from_rotation_z(FRAC_PI_2)
from_rotation_z_quarter == <<<<0, 0 - 1, 0>>, <<1, 0, 0>>, <<0, 0, 1>>>>

\* Quat * Vec3
Quat_mul_vec3(q, v) ==
    [i \in 1 .. 3 |-> q[i][1] * v[1] + q[i][2] * v[2] + q[i][3] * v[3]]

\* points.into_iter().map(|point| rotation * point)
map_rotation(rotation, points) ==
    [n \in DOMAIN points |-> Quat_mul_vec3(rotation, points[n])]

\* Aabb3d_from_point_cloud_expect asking for a second point
Aabb3d_from_point_cloud_expect_second(points) == Len(points) >= 2

\* iter.next() is Some: the expect of Aabb3d::from_point_cloud passes
Aabb3d_from_point_cloud_expect(points) == Len(points) >= 1

RECURSIVE fold_min_max(_, _, _)
\* iter.fold(acc, |(prev_min, prev_max), point| (point.min(prev_min),
\* point.max(prev_max))) over the points from the n-th on
fold_min_max(acc, iter, n) ==
    IF n > Len(iter) THEN acc
    ELSE fold_min_max(<<VMin(iter[n], acc[1]), VMax(iter[n], acc[2])>>, iter, n + 1)

\* Aabb3d_from_point_cloud folding from the origin
Aabb3d_from_point_cloud_from_zero(translation, rotation, points) ==
    LET iter    == map_rotation(rotation, points)
        min_max == fold_min_max(<<ZERO, ZERO>>, iter, 2)
    IN  [min |-> VAdd(min_max[1], translation), max |-> VAdd(min_max[2], translation)]

\* the value returned for a non-empty sequence of points
Aabb3d_from_point_cloud(translation, rotation, points) ==
    LET iter    == map_rotation(rotation, points)
        first   == iter[1]
        min_max == fold_min_max(<<first, first>>, iter, 2)
    IN  [min |-> VAdd(min_max[1], translation), max |-> VAdd(min_max[2], translation)]

\* the assert! of point_cloud_3d_center as a debug_assert!
point_cloud_3d_center_assert_debug_only(points) == TRUE

\* the assert! of point_cloud_3d_center passes
point_cloud_3d_center_assert(points) == Len(points) >= 1

\* 1.0 / len as f32
point_cloud_3d_denom(points) == Div(Scale, Len(points) * Scale)

RECURSIVE fold_center(_, _, _, _)
\* iter.fold(acc, |acc, point| acc + point * denom) over the points from the
\* n-th on
fold_center(acc, points, denom, n) ==
    IF n > Len(points) THEN acc
    ELSE fold_center(VAdd(acc, VMul(points[n], denom)), points, denom, n + 1)

\* point_cloud_3d_center adding up the points without the weight
point_cloud_3d_center_sum(points) == fold_center(ZERO, points, Scale, 1)

point_cloud_3d_center(points) ==
    fold_center(ZERO, points, point_cloud_3d_denom(points), 1)

RECURSIVE fold_radius_squared(_, _, _, _)
\* the loop of BoundingSphere::from_point_cloud over the points from the
\* n-th on
fold_radius_squared(radius_squared, points, center, n) ==
    IF n > Len(points) THEN radius_squared
    ELSE LET distance_squared_n == distance_squared(points[n], center)
         IN  fold_radius_squared(IF distance_squared_n > radius_squared
                                     THEN distance_squared_n ELSE radius_squared,
                                 points, center, n + 1)

BoundingSphere_from_point_cloud(translation, rotation, points) ==
    LET center         == point_cloud_3d_center(points)
        radius_squared == fold_radius_squared(0, points, center, 1)
    IN  [center |-> VAdd(Quat_mul_vec3(rotation, center), translation),
         radius |-> Sqrt(radius_squared)]

\* every intermediate value of BoundingSphere::from_point_cloud is
\* representable
from_point_cloud_exact(points) ==
    Len(points) >= 1 =>
        /\ Div_exact(Scale, Len(points) * Scale)
        /\ \A n \in DOMAIN points : \A i \in 1 .. 3 :
              Mul_exact(points[n][i], point_cloud_3d_denom(points))
        /\ Sqrt_exact(fold_radius_squared(0, points, point_cloud_3d_center(points), 1))

---------------------------------------------------------------------------
(* Bounded3d for Cylinder, Cone and ConicalFrustum                         *)

\* Vec3::dot, in units of 1/Scale^2
dot(u, v) == u[1] * v[1] + u[2] * v[2] + u[3] * v[3]

\* f32::copysign
copysign(x, sign) ==
    LET abs == IF x >= 0 THEN x ELSE 0 - x
    IN  IF sign >= 0 THEN abs ELSE 0 - abs

\* the vector basis of the loops of aabb_3d with basis[dim] = value
basis(dim, value) == [i \in 1 .. 3 |-> IF i = dim THEN value ELSE 0]

\* the value of aabb_3d where no division by zero makes it NaN
Cylinder_aabb_3d(cylinder, translation, rotation) ==
    LET segment == VMul(VMul(Quat_mul_vec3(rotation, <<0, Scale, 0>>), 2 * Scale),
                        cylinder.half_height)
        len_squared  == length_squared(segment)
        half_extents ==
            VMul(<<Div(segment[2] * segment[2] + segment[3] * segment[3], len_squared),
                   Div(segment[1] * segment[1] + segment[3] * segment[3], len_squared),
                   Div(segment[1] * segment[1] + segment[2] * segment[2], len_squared)>>,
                 cylinder.radius)
    IN  [min |-> VSub(translation, half_extents), max |-> VAdd(translation, half_extents)]

\* segment.length_squared() is 0: the half extents are 0 / 0
Cylinder_aabb_3d_is_nan(cylinder) == cylinder.half_height = 0

\* cone_local_support_point without the copysign of the half height
cone_local_support_point_apex_up(cone, direction) ==
    LET half_height == Half(cone.height)
        lateral     == <<direction[1], 0, direction[3]>>
        support     == VMul(VDiv(lateral, length(lateral)), cone.radius)
        rim         == <<support[1], 0 - half_height, support[3]>>
    IN  IF length(lateral) = 0
            THEN <<0, half_height, 0>>
        ELSE IF dot(direction, rim) < direction[2] * half_height
            THEN <<0, half_height, 0>>
        ELSE rim

\* Vec3::normalize of the zero vector is NaN in every component, which is
\* the case !support.is_finite()
cone_local_support_point(cone, direction) ==
    LET half_height == Half(cone.height)
        lateral     == <<direction[1], 0, direction[3]>>
        support     == VMul(VDiv(lateral, length(lateral)), cone.radius)
        rim         == <<support[1], 0 - half_height, support[3]>>
    IN  IF length(lateral) = 0
            THEN <<0, copysign(half_height, direction[2]), 0>>
        ELSE IF dot(direction, rim) < direction[2] * half_height
            THEN <<0, half_height, 0>>
        ELSE rim

\* the box of the six support points, before rotation and translation
Cone_local_aabb(cone) ==
    [min |-> [dim \in 1 .. 3 |-> cone_local_support_point(cone, basis(dim, 0 - Scale))[dim]],
     max |-> [dim \in 1 .. 3 |-> cone_local_support_point(cone, basis(dim, Scale))[dim]]]

Cone_aabb_3d(cone, translation, rotation) ==
    [min |-> VAdd(Quat_mul_vec3(rotation, Cone_local_aabb(cone).min), translation),
     max |-> VAdd(Quat_mul_vec3(rotation, Cone_local_aabb(cone).max), translation)]

\* called for directions with a lateral part
cylinder_local_support_point(cylinder, direction) ==
    LET lateral == <<direction[1], 0, direction[3]>>
        support == VMul(VDiv(lateral, length(lateral)), cylinder.radius)
    IN  <<support[1], copysign(cylinder.half_height, direction[2]), support[3]>>

conical_frustum_local_support_point(frustum, direction) ==
    LET half_height == Half(frustum.height)
        lateral     == <<direction[1], 0, direction[3]>>
        support     == VMul(VDiv(lateral, length(lateral)), frustum.radius_bottom)
        rim         == <<support[1], 0 - half_height, support[3]>>
        top         == cylinder_local_support_point(
                           [radius |-> frustum.radius_top, half_height |-> half_height],
                           direction)
    IN  IF length(lateral) = 0
            THEN <<0, copysign(half_height, direction[2]), 0>>
        ELSE IF dot(direction, rim) < direction[2] * half_height
            THEN <<top[1], half_height, top[3]>>
        ELSE rim

ConicalFrustum_local_aabb(frustum) ==
    [min |-> [dim \in 1 .. 3 |->
                 conical_frustum_local_support_point(frustum, basis(dim, 0 - Scale))[dim]],
     max |-> [dim \in 1 .. 3 |->
                 conical_frustum_local_support_point(frustum, basis(dim, Scale))[dim]]]

ConicalFrustum_aabb_3d(frustum, translation, rotation) ==
    [min |-> VAdd(Quat_mul_vec3(rotation, ConicalFrustum_local_aabb(frustum).min), translation),
     max |-> VAdd(Quat_mul_vec3(rotation, ConicalFrustum_local_aabb(frustum).max), translation)]

---------------------------------------------------------------------------
(* Dir2 and Dir3                                                           *)

\* The coordinates of a vector that a direction is made from are f32 values
\* of every class: a finite value (fixed point, of magnitude at most
\* F32_MAX), an infinity (value is its sign) or a NaN.
f32(x) == [class |-> "finite", value |-> x]

\* f32::MAX of the model: 512.0
F32_MAX == 30720

NAN == [class |-> "nan", value |-> 0]

INFINITY == [class |-> "infinite", value |-> 1]

NEG_INFINITY == [class |-> "infinite", value |-> 0 - 1]

is_nan(x) == x.class = "nan"

is_finite(x) == x.class = "finite"

\* a finite result in units of 1/Scale^2, infinite when it is above f32::MAX
f32_rounded(product) == IF product > F32_MAX * Scale THEN INFINITY ELSE f32(product)

\* x * x, in units of 1/Scale^2
f32_square(x) ==
    CASE is_nan(x) -> NAN
      [] x.class = "infinite" -> INFINITY
      [] OTHER -> IF x.value > F32_MAX \/ 0 - x.value > F32_MAX THEN INFINITY
                  ELSE f32_rounded(x.value * x.value)

\* x + y of two squares
f32_add(x, y) ==
    CASE is_nan(x) \/ is_nan(y) -> NAN
      [] x.class = "infinite" /\ y.class = "infinite" -> IF x.value = y.value THEN x ELSE NAN
      [] x.class = "infinite" -> x
      [] y.class = "infinite" -> y
      [] OTHER -> f32_rounded(x.value + y.value)

\* f32::sqrt of a sum of squares
f32_sqrt(x) ==
    CASE is_nan(x) -> NAN
      [] x.class = "infinite" -> IF x.value > 0 THEN INFINITY ELSE NAN
      [] OTHER -> IF x.value < 0 THEN NAN ELSE f32(Sqrt(x.value))

RECURSIVE f32_sum_squares(_, _)
f32_sum_squares(value, n) ==
    IF n = 1 THEN f32_square(value[1])
    ELSE f32_add(f32_sum_squares(value, n - 1), f32_square(value[n]))

\* Vec2::length / Vec3::length of a vector of f32 coordinates
f32_length(value) == f32_sqrt(f32_sum_squares(value, Len(value)))

\* InvalidDirectionError::from_length asking for an infinite length first
from_length_infinite_first(len) ==
    IF ~is_finite(len) THEN "Infinite"
    ELSE IF is_nan(len) THEN "NaN"
    ELSE "Zero"

\* InvalidDirectionError::from_length
from_length(len) ==
    IF is_nan(len) THEN "NaN"
    ELSE IF ~is_finite(len) THEN "Infinite"
    ELSE "Zero"

\* Ok((Self(dir), length))
Ok(dir, len) == [ok |-> TRUE, dir |-> dir, len |-> len, err |-> "none"]

\* Err(error)
Err(error) == [ok |-> FALSE, dir |-> <<>>, len |-> 0, err |-> error]

Dir2_new_and_length(value) ==
    LET len == f32_length(value)
    IN  IF is_finite(len) /\ len.value > 0
            THEN Ok([i \in 1 .. 2 |-> Div(value[i].value, len.value)], len.value)
            ELSE Err(from_length(len))

\* Self::new_and_length(value).map(|(dir, _)| dir)
Dir2_new(value) == [Dir2_new_and_length(value) EXCEPT !.len = 0]

Dir3_new_and_length(value) ==
    LET len == f32_length(value)
    IN  IF is_finite(len) /\ len.value > 0
            THEN Ok([i \in 1 .. 3 |-> Div(value[i].value, len.value)], len.value)
            ELSE Err(from_length(len))

Dir3_new(value) == [Dir3_new_and_length(value) EXCEPT !.len = 0]

\* the length and the direction of the vector are representable
new_and_length_exact(value) ==
    LET squares == f32_sum_squares(value, Len(value))
        len     == f32_length(value)
    IN  is_finite(squares) =>
            /\ Sqrt_exact(squares.value)
            /\ len.value > 0 =>
                  \A i \in DOMAIN value : Div_exact(value[i].value, len.value)

---------------------------------------------------------------------------
(* Bounded3d for Line3d, Plane3d and Torus                                 *)

\* Vec3::any_orthonormal_vector of glam, on a unit vector
any_orthonormal_vector(v) ==
    LET sign == IF v[3] >= 0 THEN Scale ELSE 0 - Scale
        a    == Div(0 - Scale, sign + v[3])
        b    == Mul(Mul(v[1], v[2]), a)
    IN  <<b, sign + Mul(Mul(v[2], v[2]), a), 0 - v[2]>>

\* direction == Vec3::X || direction == Vec3::NEG_X, and so for Y and Z
parallel(direction, dim) ==
    direction = basis(dim, Scale) \/ direction = basis(dim, 0 - Scale)

Line3d_aabb_3d(line, translation, rotation) ==
    LET direction   == Quat_mul_vec3(rotation, line.direction)
        x_parallel  == parallel(direction, 1)
        y_parallel  == parallel(direction, 2)
        z_parallel  == parallel(direction, 3)
        max         == Half(F32_MAX)
        half_width  == IF y_parallel /\ z_parallel THEN 0 ELSE max
        half_height == IF x_parallel /\ z_parallel THEN 0 ELSE max
        half_depth  == IF x_parallel /\ y_parallel THEN 0 ELSE max
        half_size   == <<half_width, half_height, half_depth>>
    IN  [min |-> VSub(translation, half_size), max |-> VAdd(translation, half_size)]

Plane3d_aabb_3d(plane, translation, rotation) ==
    LET direction   == any_orthonormal_vector(Quat_mul_vec3(rotation, plane.normal))
        facing_x    == parallel(direction, 1)
        facing_y    == parallel(direction, 2)
        facing_z    == parallel(direction, 3)
        max         == Half(F32_MAX)
        half_width  == IF facing_y /\ facing_z THEN 0 ELSE max
        half_height == IF facing_x /\ facing_z THEN 0 ELSE max
        half_depth  == IF facing_x /\ facing_y THEN 0 ELSE max
        half_size   == <<half_width, half_height, half_depth>>
    IN  [min |-> VSub(translation, half_size), max |-> VAdd(translation, half_size)]

\* Torus::outer_radius
outer_radius(torus) == torus.major_radius + torus.minor_radius

Torus_aabb_3d(torus, translation, rotation) ==
    LET half_extents ==
            Quat_mul_vec3(rotation,
                          <<outer_radius(torus), torus.minor_radius, outer_radius(torus)>>)
    IN  [min |-> VSub(translation, half_extents), max |-> VAdd(translation, half_extents)]

---------------------------------------------------------------------------
(* Inputs                                                                  *)

Grid(k) == {i * Scale : i \in 0 .. k}

Vec2s(k) == {<<x, y>> : x \in Grid(k), y \in Grid(k)}

Vec3s(k) == {<<x, y, z>> : x \in Grid(k), y \in Grid(k), z \in Grid(k)}

\* the boxes of aabb2d_tests
TestAabb2d ==
    { [min |-> <<0 - Scale, 0 - Scale>>, max |-> <<Scale, Half(Scale)>>],
      [min |-> <<0 - 2 * Scale, 0 - Half(Scale)>>, max |-> <<(3 * Scale) \div 4, Scale>>],
      [min |-> <<0 - Scale, 0 - Scale>>, max |-> <<Scale, Scale>>] }

\* the boxes of aabb3d_tests
TestAabb3d ==
    { [min |-> <<0 - Scale, 0 - Scale, 0 - Scale>>, max |-> <<Scale, Half(Scale), Scale>>],
      [min |-> <<0 - 2 * Scale, 0 - Half(Scale), 0>>,
       max |-> <<(3 * Scale) \div 4, Scale, 2 * Scale>>],
      [min |-> <<0 - Scale, 0 - Scale, 0 - Scale>>, max |-> <<Scale, Scale, Scale>>],
      [min |-> <<0 - 2 * Scale, 0 - 2 * Scale, 0 - 2 * Scale>>,
       max |-> <<2 * Scale, 2 * Scale, 2 * Scale>>] }

\* the circles of bounding_circle_tests
TestCircles ==
    { [center |-> <<Scale, Scale>>, radius |-> 5 * Scale],
      [center |-> <<Scale, 0 - 4 * Scale>>, radius |-> Scale],
      [center |-> <<Scale, Scale>>, radius |-> 6 * Scale],
      [center |-> <<Scale, 0 - 7 * Half(Scale)>>, radius |-> Half(Scale)] }

\* the spheres of bounding_sphere_tests
TestSpheres ==
    { [center |-> <<Scale, Scale, Scale>>, radius |-> 5 * Scale],
      [center |-> <<Scale, Scale, 0 - 4 * Scale>>, radius |-> Scale],
      [center |-> <<Scale, Scale, Scale>>, radius |-> 6 * Scale],
      [center |-> <<Scale, 0 - 7 * Half(Scale), Scale>>, radius |-> Half(Scale)] }

\* boxes with min <= max componentwise
Aabb2ds ==
    {[min |-> p, max |-> q] : <<p, q>> \in
        {pq \in Vec2s(MaxBox2) \X Vec2s(MaxBox2) : \A i \in 1 .. 2 : pq[1][i] <= pq[2][i]}}
    \cup TestAabb2d

Aabb3ds ==
    {[min |-> p, max |-> q] : <<p, q>> \in
        {pq \in Vec3s(MaxBox3) \X Vec3s(MaxBox3) : \A i \in 1 .. 3 : pq[1][i] <= pq[2][i]}}
    \cup TestAabb3d

\* the second box of aabb3d_tests::area
TestAreaAabb3d == {[min |-> <<0, 0, 0>>, max |-> <<Scale, Half(Scale), Scale \div 4>>]}

\* the boxes that bounding_sphere and visible_area are called on: corners on
\* the grid 0..MaxCoord3
Aabb3dsOfGrid ==
    {[min |-> p, max |-> q] : <<p, q>> \in
        {pq \in Vec3s(MaxCoord3) \X Vec3s(MaxCoord3) : \A i \in 1 .. 3 : pq[1][i] <= pq[2][i]}}
    \cup TestAabb3d \cup TestAreaAabb3d

\* circles and spheres with radius >= 0
BoundingCircles ==
    {[center |-> c, radius |-> r] : c \in Vec2s(MaxCoord2), r \in Grid(MaxRadius2)}
    \cup TestCircles

BoundingSpheres ==
    {[center |-> c, radius |-> r] : c \in Vec3s(MaxCoord3), r \in Grid(MaxRadius3)}
    \cup TestSpheres

\* amounts in steps of 0.5, one of them negative
Amounts == {i * Half(Scale) : i \in (0 - 1) .. (2 * MaxAmount)}

Amounts2d == {<<<<a, b>>, <<c, d>>>> : a \in Amounts, b \in Amounts, c \in Amounts, d \in Amounts}

Amounts3d == {<<a, b, c>> : a \in Amounts, b \in Amounts, c \in Amounts}

\* the rotations of the calls
Quats ==
    {IDENTITY, from_rotation_x_quarter, from_rotation_x_half,
     from_rotation_y_quarter, from_rotation_z_quarter}

\* the translations of the calls
Translations == {ZERO, <<Scale, 0 - 2 * Scale, Half(Scale)>>}

\* the points of the point clouds
CloudPoints ==
    {ZERO, <<Scale, 0, 0>>, <<0 - Scale, 0, 0>>, <<2 * Scale, 4 * Scale, 4 * Scale>>,
     <<0, 0 - 2 * Scale, Scale>>, <<0 - 3 * Scale, 3 * Scale, 0>>}

RECURSIVE SeqsOfLen(_, _)
SeqsOfLen(S, n) ==
    IF n = 0 THEN {<<>>}
    ELSE {Append(q, x) : q \in SeqsOfLen(S, n - 1), x \in S}

\* the point clouds: the sequences of at most MaxCloud points, the empty one
\* included
PointClouds == UNION {SeqsOfLen(CloudPoints, n) : n \in 0 .. MaxCloud}

\* the translation and the rotation of a call
Transform(translation, rotation) == [translation |-> translation, rotation |-> rotation]

\* the coordinates of the vectors that directions are made from: those of
\* tests::dir2_creation and tests::dir3_creation among them
DirCoords ==
    {f32(0), f32(Scale), f32(2 * Scale), f32(0 - 2 * Scale), f32(3 * Scale),
     f32(0 - 4 * Scale), f32((13 * Scale) \div 2), f32((25 * Scale) \div 2),
     f32(F32_MAX), NAN, INFINITY, NEG_INFINITY}

DirVec2s == {<<x, y>> : x \in DirCoords, y \in DirCoords}

DirVec3s == {<<x, y, z>> : x \in DirCoords, y \in DirCoords, z \in DirCoords}

\* the solids: radii and heights 0..MaxRadius3
Cylinders == {[radius |-> r, half_height |-> h] : r \in Grid(MaxRadius3), h \in Grid(MaxRadius3)}

Cones == {[radius |-> r, height |-> h] : r \in Grid(MaxRadius3), h \in Grid(MaxRadius3)}

ConicalFrustums ==
    {[radius_top |-> t, radius_bottom |-> b, height |-> h] :
        t \in Grid(MaxRadius3), b \in Grid(MaxRadius3), h \in Grid(MaxRadius3)}

\* the unit vectors of the lines: the six signed axes and two directions that
\* are along no axis, (0.6, 0.8, 0) and (0, -0.8, 0.6)
Directions ==
    {basis(dim, s) : dim \in 1 .. 3, s \in {Scale, 0 - Scale}}
        \cup {<<(3 * Scale) \div 5, (4 * Scale) \div 5, 0>>,
              <<0, 0 - (4 * Scale) \div 5, (3 * Scale) \div 5>>}

Line3ds == {[direction |-> d] : d \in Directions}

\* the planes: their normals are the signed axes, on which
\* any_orthonormal_vector is exact
Plane3ds == {[normal |-> basis(dim, s)] : dim \in 1 .. 3, s \in {Scale, 0 - Scale}}

\* the tori: the radius of the tube and of the ring on halves of 0..MaxRadius3
Toruses ==
    {[minor_radius |-> Half(m), major_radius |-> M] :
        m \in Grid(MaxRadius3), M \in Grid(MaxRadius3)}

---------------------------------------------------------------------------
(* The calls                                                               *)

NoVolume == [min |-> <<>>, max |-> <<>>]

Init ==
    /\ op = "none"
    /\ self = NoVolume
    /\ other = NoVolume
    /\ amount = 0
    /\ out = NoVolume
    /\ ret = FALSE
    /\ panicked = FALSE
    /\ nan = FALSE
    /\ failed = FALSE

\* a call of method name on s with the arguments o, amt: it returns the
\* volume vol or the bool b; the debug_assert!s of the call are asserts
Call(name, s, o, amt, vol, b, asserts, divzero) ==
    /\ op' = name
    /\ self' = s
    /\ other' = o
    /\ amount' = amt
    /\ panicked' = ~asserts
    /\ nan' = divzero
    /\ out' = IF nan' THEN s ELSE vol
    /\ ret' = b
    /\ failed' = FALSE

Aabb2dContains ==
    /\ op = "none"
    /\ \E a \in Aabb2ds, b \in Aabb2ds :
        Call("Aabb2d::contains", a, b, 0, a, Aabb2d_contains(a, b), TRUE, FALSE)

Aabb2dMerged ==
    /\ op = "none"
    /\ \E a \in Aabb2ds, b \in Aabb2ds :
        Call("Aabb2d::merged", a, b, 0, Aabb2d_merged(a, b), FALSE, TRUE, FALSE)

Aabb2dPadded ==
    /\ op = "none"
    /\ \E a \in Aabb2ds, amt \in Amounts2d :
        Call("Aabb2d::padded", a, a, amt, Aabb2d_padded(a, amt), FALSE,
             Aabb2d_debug_assert(Aabb2d_padded(a, amt)), FALSE)

Aabb2dShrunk ==
    /\ op = "none"
    /\ \E a \in Aabb2ds, amt \in Amounts2d :
        Call("Aabb2d::shrunk", a, a, amt, Aabb2d_shrunk(a, amt), FALSE,
             Aabb2d_debug_assert(Aabb2d_shrunk(a, amt)), FALSE)

Aabb3dContains ==
    /\ op = "none"
    /\ \E a \in Aabb3ds, b \in Aabb3ds :
        Call("Aabb3d::contains", a, b, 0, a, Aabb3d_contains(a, b), TRUE, FALSE)

Aabb3dMerge ==
    /\ op = "none"
    /\ \E a \in Aabb3ds, b \in Aabb3ds :
        Call("Aabb3d::merge", a, b, 0, Aabb3d_merge(a, b), FALSE, TRUE, FALSE)

Aabb3dGrow ==
    /\ op = "none"
    /\ \E a \in Aabb3ds, amt \in Amounts3d :
        Call("Aabb3d::grow", a, a, amt, Aabb3d_grow(a, amt), FALSE,
             Aabb3d_debug_assert(Aabb3d_grow(a, amt)), FALSE)

Aabb3dShrink ==
    /\ op = "none"
    /\ \E a \in Aabb3ds, amt \in Amounts3d :
        Call("Aabb3d::shrink", a, a, amt, Aabb3d_shrink(a, amt), FALSE,
             Aabb3d_debug_assert(Aabb3d_shrink(a, amt)), FALSE)

Aabb3dIntersects ==
    /\ op = "none"
    /\ \E a \in Aabb3ds, b \in Aabb3ds :
        Call("Aabb3d::intersects", a, b, 0, a, Aabb3d_intersects(a, b), TRUE, FALSE)

BoundingCircleContains ==
    /\ op = "none"
    /\ \E a \in BoundingCircles, b \in BoundingCircles :
        /\ Sqrt_exact(distance_squared(a.center, b.center))
        /\ Call("BoundingCircle::contains", a, b, 0, a, BoundingCircle_contains(a, b),
                TRUE, FALSE)

BoundingCircleMerged ==
    /\ op = "none"
    /\ \E a \in BoundingCircles, b \in BoundingCircles :
        /\ merge_exact(a, b)
        /\ Call("BoundingCircle::merged", a, b, 0, BoundingCircle_merged(a, b), FALSE,
                merge_case(a, b) = "new" => new_debug_assert(BoundingCircle_merged(a, b).radius),
                merge_case(a, b) = "new" /\ length(VSub(b.center, a.center)) = 0)

BoundingCirclePadded ==
    /\ op = "none"
    /\ \E a \in BoundingCircles, amt \in Amounts :
        Call("BoundingCircle::padded", a, a, amt, BoundingCircle_padded(a, amt), FALSE,
             BoundingCircle_padded_asserts(a, amt), FALSE)

BoundingCircleShrunk ==
    /\ op = "none"
    /\ \E a \in BoundingCircles, amt \in Amounts :
        Call("BoundingCircle::shrunk", a, a, amt, BoundingCircle_shrunk(a, amt), FALSE,
             BoundingCircle_shrunk_asserts(a, amt), FALSE)

BoundingSphereContains ==
    /\ op = "none"
    /\ \E a \in BoundingSpheres, b \in BoundingSpheres :
        Call("BoundingSphere::contains", a, b, 0, a, BoundingSphere_contains(a, b),
             TRUE, FALSE)

BoundingSphereMerge ==
    /\ op = "none"
    /\ \E a \in BoundingSpheres, b \in BoundingSpheres :
        /\ merge_exact(a, b)
        /\ Call("BoundingSphere::merge", a, b, 0, BoundingSphere_merge(a, b), FALSE,
                merge_case(a, b) = "new" => new_debug_assert(BoundingSphere_merge(a, b).radius),
                merge_case(a, b) = "new" /\ length(VSub(b.center, a.center)) = 0)

BoundingSphereGrow ==
    /\ op = "none"
    /\ \E a \in BoundingSpheres, amt \in Amounts :
        Call("BoundingSphere::grow", a, a, amt, BoundingSphere_grow(a, amt), FALSE,
             BoundingSphere_grow_asserts(a, amt), FALSE)

BoundingSphereShrink ==
    /\ op = "none"
    /\ \E a \in BoundingSpheres, amt \in Amounts :
        Call("BoundingSphere::shrink", a, a, amt, BoundingSphere_shrink(a, amt), FALSE,
             BoundingSphere_shrink_asserts(a, amt), FALSE)

BoundingSphereIntersects ==
    /\ op = "none"
    /\ \E a \in BoundingSpheres, b \in BoundingSpheres :
        Call("BoundingSphere::intersects", a, b, 0, a, BoundingSphere_intersects(a, b),
             TRUE, FALSE)

Aabb3dBoundingSphere ==
    /\ op = "none"
    /\ \E a \in Aabb3dsOfGrid :
        /\ bounding_sphere_exact(a)
        /\ Call("Aabb3d::bounding_sphere", a, a, 0, Aabb3d_bounding_sphere(a), FALSE,
                new_debug_assert(Aabb3d_bounding_sphere(a).radius), FALSE)

Aabb3dVisibleArea ==
    /\ op = "none"
    /\ \E a \in Aabb3dsOfGrid :
        Call("Aabb3d::visible_area", a, a, 0, Aabb3d_visible_area(a), FALSE, TRUE, FALSE)

Dir2New ==
    /\ op = "none"
    /\ \E value \in DirVec2s :
        /\ new_and_length_exact(value)
        /\ Call("Dir2::new", value, value, 0, Dir2_new(value), FALSE, TRUE, FALSE)

Dir2NewAndLength ==
    /\ op = "none"
    /\ \E value \in DirVec2s :
        /\ new_and_length_exact(value)
        /\ Call("Dir2::new_and_length", value, value, 0, Dir2_new_and_length(value),
                FALSE, TRUE, FALSE)

Dir3New ==
    /\ op = "none"
    /\ \E value \in DirVec3s :
        /\ new_and_length_exact(value)
        /\ Call("Dir3::new", value, value, 0, Dir3_new(value), FALSE, TRUE, FALSE)

Dir3NewAndLength ==
    /\ op = "none"
    /\ \E value \in DirVec3s :
        /\ new_and_length_exact(value)
        /\ Call("Dir3::new_and_length", value, value, 0, Dir3_new_and_length(value),
                FALSE, TRUE, FALSE)

CylinderAabb3d ==
    /\ op = "none"
    /\ \E cylinder \in Cylinders, translation \in Translations, rotation \in Quats :
        Call("Cylinder::aabb_3d", cylinder, Transform(translation, rotation), 0,
             Cylinder_aabb_3d(cylinder, translation, rotation), FALSE, TRUE,
             Cylinder_aabb_3d_is_nan(cylinder))

ConeAabb3d ==
    /\ op = "none"
    /\ \E cone \in Cones, translation \in Translations, rotation \in Quats :
        Call("Cone::aabb_3d", cone, Transform(translation, rotation), 0,
             Cone_aabb_3d(cone, translation, rotation), FALSE, TRUE, FALSE)

ConicalFrustumAabb3d ==
    /\ op = "none"
    /\ \E frustum \in ConicalFrustums, translation \in Translations, rotation \in Quats :
        Call("ConicalFrustum::aabb_3d", frustum, Transform(translation, rotation), 0,
             ConicalFrustum_aabb_3d(frustum, translation, rotation), FALSE, TRUE, FALSE)

Line3dAabb3d ==
    /\ op = "none"
    /\ \E line \in Line3ds, translation \in Translations, rotation \in Quats :
        Call("Line3d::aabb_3d", line, Transform(translation, rotation), 0,
             Line3d_aabb_3d(line, translation, rotation), FALSE, TRUE, FALSE)

Plane3dAabb3d ==
    /\ op = "none"
    /\ \E plane \in Plane3ds, translation \in Translations, rotation \in Quats :
        Call("Plane3d::aabb_3d", plane, Transform(translation, rotation), 0,
             Plane3d_aabb_3d(plane, translation, rotation), FALSE, TRUE, FALSE)

TorusAabb3d ==
    /\ op = "none"
    /\ \E torus \in Toruses, translation \in Translations, rotation \in Quats :
        Call("Torus::aabb_3d", torus, Transform(translation, rotation), 0,
             Torus_aabb_3d(torus, translation, rotation), FALSE, TRUE, FALSE)

\* a call of the function name with the argument s under the transform o:
\* it returns val unless its assert! / expect fails; the debug_assert!s of the
\* call are asserts
CallChecked(name, s, o, val, asserts, passes) ==
    /\ op' = name
    /\ self' = s
    /\ other' = o
    /\ amount' = 0
    /\ failed' = ~passes
    /\ panicked' = (passes /\ ~asserts)
    /\ nan' = FALSE
    /\ out' = IF passes THEN val ELSE NoVolume
    /\ ret' = FALSE

Aabb3dFromPointCloud ==
    /\ op = "none"
    /\ \E translation \in Translations, rotation \in Quats, points \in PointClouds :
        CallChecked("Aabb3d::from_point_cloud", points, Transform(translation, rotation),
                    Aabb3d_from_point_cloud(translation, rotation, points),
                    TRUE, Aabb3d_from_point_cloud_expect(points))

BoundingSphereFromPointCloud ==
    /\ op = "none"
    /\ \E translation \in Translations, rotation \in Quats, points \in PointClouds :
        /\ from_point_cloud_exact(points)
        /\ CallChecked("BoundingSphere::from_point_cloud", points,
                       Transform(translation, rotation),
                       BoundingSphere_from_point_cloud(translation, rotation, points),
                       new_debug_assert(
                           BoundingSphere_from_point_cloud(translation, rotation, points).radius),
                       point_cloud_3d_center_assert(points))

BoundingCircleNew ==
    /\ op = "none"
    /\ \E center \in Vec2s(MaxCoord2), radius \in Amounts :
        Call("BoundingCircle::new", new(center, radius), NoVolume, 0, new(center, radius),
             FALSE, new_debug_assert(radius), FALSE)

BoundingSphereNew ==
    /\ op = "none"
    /\ \E center \in Vec3s(MaxCoord3), radius \in Amounts :
        Call("BoundingSphere::new", new(center, radius), NoVolume, 0, new(center, radius),
             FALSE, new_debug_assert(radius), FALSE)

\* The caller passes the volume that a call returned (no assertion failed)
\* to a next call, as its receiver.  The chains go on while the volume stays within MaxChain of the
\* origin; the amounts of a chained call are the same on every side.
Within(v) ==
    IF "radius" \in DOMAIN v
        THEN v.radius <= MaxChain * Scale
        ELSE \A i \in DOMAIN v.min :
                 0 - MaxChain * Scale <= v.min[i] /\ v.max[i] <= MaxChain * Scale

Aabb2dChained ==
    /\ op \in {"Aabb2d::merged", "Aabb2d::padded", "Aabb2d::shrunk"}
    /\ ~panicked /\ ~nan /\ ~failed
    /\ Within(out)
    /\ \/ \E b \in TestAabb2d :
            Call("Aabb2d::merged", out, b, 0, Aabb2d_merged(out, b), FALSE, TRUE, FALSE)
       \/ \E a \in Amounts :
            LET amt == <<<<a, a>>, <<a, a>>>>
            IN  Call("Aabb2d::padded", out, out, amt, Aabb2d_padded(out, amt), FALSE,
                     Aabb2d_debug_assert(Aabb2d_padded(out, amt)), FALSE)
       \/ \E a \in Amounts :
            LET amt == <<<<a, a>>, <<a, a>>>>
            IN  Call("Aabb2d::shrunk", out, out, amt, Aabb2d_shrunk(out, amt), FALSE,
                     Aabb2d_debug_assert(Aabb2d_shrunk(out, amt)), FALSE)

Aabb3dChained ==
    /\ op \in {"Aabb3d::merge", "Aabb3d::grow", "Aabb3d::shrink", "Aabb3d::from_point_cloud"}
    /\ ~panicked /\ ~nan /\ ~failed
    /\ Within(out)
    /\ \/ \E b \in TestAabb3d :
            Call("Aabb3d::merge", out, b, 0, Aabb3d_merge(out, b), FALSE, TRUE, FALSE)
       \/ \E a \in Amounts :
            LET amt == <<a, a, a>>
            IN  Call("Aabb3d::grow", out, out, amt, Aabb3d_grow(out, amt), FALSE,
                     Aabb3d_debug_assert(Aabb3d_grow(out, amt)), FALSE)
       \/ \E a \in Amounts :
            LET amt == <<a, a, a>>
            IN  Call("Aabb3d::shrink", out, out, amt, Aabb3d_shrink(out, amt), FALSE,
                     Aabb3d_debug_assert(Aabb3d_shrink(out, amt)), FALSE)

BoundingCircleChained ==
    /\ op \in {"BoundingCircle::new", "BoundingCircle::merged",
               "BoundingCircle::padded", "BoundingCircle::shrunk"}
    /\ ~panicked /\ ~nan /\ ~failed
    /\ Within(out)
    /\ \/ \E b \in TestCircles :
            /\ merge_exact(out, b)
            /\ Call("BoundingCircle::merged", out, b, 0, BoundingCircle_merged(out, b), FALSE,
                    merge_case(out, b) = "new"
                        => new_debug_assert(BoundingCircle_merged(out, b).radius),
                    merge_case(out, b) = "new" /\ length(VSub(b.center, out.center)) = 0)
       \/ \E amt \in Amounts :
            Call("BoundingCircle::padded", out, out, amt, BoundingCircle_padded(out, amt),
                 FALSE, BoundingCircle_padded_asserts(out, amt), FALSE)
       \/ \E amt \in Amounts :
            Call("BoundingCircle::shrunk", out, out, amt, BoundingCircle_shrunk(out, amt),
                 FALSE, BoundingCircle_shrunk_asserts(out, amt), FALSE)

BoundingSphereChained ==
    /\ op \in {"BoundingSphere::new", "BoundingSphere::merge", "BoundingSphere::grow",
               "BoundingSphere::shrink", "BoundingSphere::from_point_cloud",
               "Aabb3d::bounding_sphere"}
    /\ ~panicked /\ ~nan /\ ~failed
    /\ Within(out)
    /\ \/ \E b \in TestSpheres :
            /\ merge_exact(out, b)
            /\ Call("BoundingSphere::merge", out, b, 0, BoundingSphere_merge(out, b), FALSE,
                    merge_case(out, b) = "new"
                        => new_debug_assert(BoundingSphere_merge(out, b).radius),
                    merge_case(out, b) = "new" /\ length(VSub(b.center, out.center)) = 0)
       \/ \E amt \in Amounts :
            Call("BoundingSphere::grow", out, out, amt, BoundingSphere_grow(out, amt),
                 FALSE, BoundingSphere_grow_asserts(out, amt), FALSE)
       \/ \E amt \in Amounts :
            Call("BoundingSphere::shrink", out, out, amt, BoundingSphere_shrink(out, amt),
                 FALSE, BoundingSphere_shrink_asserts(out, amt), FALSE)

\* the caller drops the operands and the result of the call
Drop ==
    /\ op # "none"
    /\ op' = "none"
    /\ self' = NoVolume
    /\ other' = NoVolume
    /\ amount' = 0
    /\ out' = NoVolume
    /\ ret' = FALSE
    /\ panicked' = FALSE
    /\ nan' = FALSE
    /\ failed' = FALSE

Next ==
    \/ Aabb2dContains
    \/ Aabb2dMerged
    \/ Aabb2dPadded
    \/ Aabb2dShrunk
    \/ Aabb3dContains
    \/ Aabb3dMerge
    \/ Aabb3dGrow
    \/ Aabb3dShrink
    \/ Aabb3dIntersects
    \/ BoundingCircleContains
    \/ BoundingCircleMerged
    \/ BoundingCirclePadded
    \/ BoundingCircleShrunk
    \/ BoundingSphereContains
    \/ BoundingSphereMerge
    \/ BoundingSphereGrow
    \/ BoundingSphereShrink
    \/ BoundingSphereIntersects
    \/ Aabb3dBoundingSphere
    \/ Aabb3dVisibleArea
    \/ Aabb3dFromPointCloud
    \/ BoundingSphereFromPointCloud
    \/ Dir2New
    \/ Dir2NewAndLength
    \/ Dir3New
    \/ Dir3NewAndLength
    \/ CylinderAabb3d
    \/ ConeAabb3d
    \/ ConicalFrustumAabb3d
    \/ Line3dAabb3d
    \/ Plane3dAabb3d
    \/ TorusAabb3d
    \/ BoundingCircleNew
    \/ BoundingSphereNew
    \/ Aabb2dChained
    \/ Aabb3dChained
    \/ BoundingCircleChained
    \/ BoundingSphereChained
    \/ Drop

Spec == Init /\ [][Next]_vars

\* the calls of one method of the four kinds of volume
NextContains ==
    \/ Aabb2dContains
    \/ Aabb3dContains
    \/ BoundingCircleContains
    \/ BoundingSphereContains
    \/ Drop

SpecContains == Init /\ [][NextContains]_vars

NextMerge ==
    \/ Aabb2dMerged
    \/ Aabb3dMerge
    \/ BoundingCircleMerged
    \/ BoundingSphereMerge
    \/ Drop

SpecMerge == Init /\ [][NextMerge]_vars

NextResize ==
    \/ Aabb2dPadded
    \/ Aabb2dShrunk
    \/ Aabb3dGrow
    \/ Aabb3dShrink
    \/ BoundingCirclePadded
    \/ BoundingCircleShrunk
    \/ BoundingSphereGrow
    \/ BoundingSphereShrink
    \/ Drop

SpecResize == Init /\ [][NextResize]_vars

NextIntersects ==
    \/ Aabb3dIntersects
    \/ BoundingSphereIntersects
    \/ Drop

SpecIntersects == Init /\ [][NextIntersects]_vars

NextPointCloud ==
    \/ Aabb3dFromPointCloud
    \/ BoundingSphereFromPointCloud
    \/ Drop

SpecPointCloud == Init /\ [][NextPointCloud]_vars

NextAabb3d ==
    \/ Aabb3dBoundingSphere
    \/ Aabb3dVisibleArea
    \/ Drop

SpecAabb3d == Init /\ [][NextAabb3d]_vars

NextDir ==
    \/ Dir2New
    \/ Dir2NewAndLength
    \/ Dir3New
    \/ Dir3NewAndLength
    \/ Drop

SpecDir == Init /\ [][NextDir]_vars

NextBounded3d ==
    \/ CylinderAabb3d
    \/ ConeAabb3d
    \/ ConicalFrustumAabb3d
    \/ Line3dAabb3d
    \/ Plane3dAabb3d
    \/ TorusAabb3d
    \/ Drop

SpecBounded3d == Init /\ [][NextBounded3d]_vars

\* the calls that make volumes, on the inputs and on the volumes that
\* earlier calls returned
NextClosure ==
    \/ Aabb2dMerged
    \/ Aabb3dMerge
    \/ BoundingCircleMerged
    \/ BoundingSphereMerge
    \/ Aabb3dFromPointCloud
    \/ BoundingSphereFromPointCloud
    \/ Aabb3dBoundingSphere
    \/ BoundingCircleNew
    \/ BoundingSphereNew
    \/ Aabb2dChained
    \/ Aabb3dChained
    \/ BoundingCircleChained
    \/ BoundingSphereChained
    \/ Drop

SpecClosure == Init /\ [][NextClosure]_vars

TypeOK ==
    /\ op \in STRING
    /\ panicked \in BOOLEAN /\ nan \in BOOLEAN /\ ret \in BOOLEAN /\ failed \in BOOLEAN

---------------------------------------------------------------------------
(* Properties                                                              *)

IsBoxMerge == op \in {"Aabb2d::merged", "Aabb3d::merge"}

IsRoundMerge == op \in {"BoundingCircle::merged", "BoundingSphere::merge"}

IsContains ==
    op \in {"Aabb2d::contains", "Aabb3d::contains",
            "BoundingCircle::contains", "BoundingSphere::contains"}

\* the call returns in every build (no assertion fails, no division by zero)
Returned == op # "none" /\ ~panicked /\ ~nan /\ ~failed

\* x.contains(y) of the kind of volume the call is about; for circles the
\* distance between the centers has to be representable as well
ContainsOfKind(x, y) ==
    CASE op \in {"Aabb2d::contains", "Aabb2d::merged", "Aabb2d::padded", "Aabb2d::shrunk"}
            -> Aabb2d_contains(x, y)
      [] op \in {"Aabb3d::contains", "Aabb3d::merge", "Aabb3d::grow", "Aabb3d::shrink"}
            -> Aabb3d_contains(x, y)
      [] op \in {"BoundingCircle::contains", "BoundingCircle::merged",
                 "BoundingCircle::padded", "BoundingCircle::shrunk"}
            -> /\ Sqrt_exact(distance_squared(x.center, y.center))
               /\ BoundingCircle_contains(x, y)
      [] op \in {"BoundingSphere::contains", "BoundingSphere::merge",
                 "BoundingSphere::grow", "BoundingSphere::shrink"}
            -> BoundingSphere_contains(x, y)

\* the distance d between the centers of the operands
CenterDistance == length(VSub(other.center, self.center))

\* neither operand of a circle / sphere merge contains the other
NeitherContains ==
    /\ self.radius < CenterDistance + other.radius
    /\ other.radius < CenterDistance + self.radius

\* C1: the merged volume contains both operands, for boxes, circles and
\* spheres.
C1_MergeAbsorbsOperands ==
    (IsBoxMerge \/ IsRoundMerge) =>
        /\ Returned
        /\ ContainsOfKind(out, self)
        /\ ContainsOfKind(out, other)

\* a sphere merge that had to construct a new sphere around two spheres
\* whose centers differ in more than one coordinate
C1_Witness ==
    /\ op = "BoundingSphere::merge"
    /\ Returned
    /\ NeitherContains
    /\ Cardinality({i \in 1 .. 3 : self.center[i] # other.center[i]}) > 1
    /\ out # self /\ out # other

\* C2: every volume contains itself.
C2_ContainsReflexive ==
    IsContains /\ self = other => ret

C2_Witness ==
    /\ op = "BoundingSphere::contains"
    /\ self = other
    /\ self.radius > 0
    /\ ret

\* C3: when neither circle / sphere contains the other, the merged radius is
\* (d + r1 + r2) / 2 and the merged center is the midpoint of the centers
\* moved by (r2 - r1) / 2 along the unit vector from self to other (stated
\* here multiplied through by 2 and by 2 * d); circle (1,1) r 5 merged with
\* circle (1,-4) r 1 is circle (1, 0.5) r 5.5.
C3_MergeFormula ==
    /\ IsRoundMerge /\ NeitherContains =>
          /\ Returned
          /\ 2 * out.radius = CenterDistance + self.radius + other.radius
          /\ \A i \in DOMAIN out.center :
                2 * CenterDistance * out.center[i]
                    = CenterDistance * (self.center[i] + other.center[i])
                      + (other.center[i] - self.center[i]) * (other.radius - self.radius)
    /\ /\ op = "BoundingCircle::merged"
       /\ self = [center |-> <<Scale, Scale>>, radius |-> 5 * Scale]
       /\ other = [center |-> <<Scale, 0 - 4 * Scale>>, radius |-> Scale]
       => out = [center |-> <<Scale, Scale \div 2>>, radius |-> (11 * Scale) \div 2]

\* the merge of the test suite: (1,1) r 5 with (1,-4) r 1
C3_Witness ==
    /\ op = "BoundingCircle::merged"
    /\ Returned
    /\ NeitherContains
    /\ self = [center |-> <<Scale, Scale>>, radius |-> 5 * Scale]
    /\ other = [center |-> <<Scale, 0 - 4 * Scale>>, radius |-> Scale]

\* C4: circle / sphere merge returns self unchanged when self.radius >=
\* d + other.radius, otherwise other unchanged when other.radius >=
\* d + self.radius; so a circle strictly inside self is absorbed, concentric
\* volumes give the shared center with the larger radius, and a.merge(a) = a.
C4_MergeCases ==
    IsRoundMerge =>
        /\ Returned
        /\ self.radius >= CenterDistance + other.radius => out = self
        /\ /\ ~(self.radius >= CenterDistance + other.radius)
           /\ other.radius >= CenterDistance + self.radius
           => out = other
        /\ self.radius > CenterDistance + other.radius => out = self
        /\ self.center = other.center =>
              /\ out.center = self.center
              /\ out.radius >= self.radius /\ out.radius >= other.radius
              /\ out.radius \in {self.radius, other.radius}
        /\ self = other => out = self

\* a merge whose second return is taken: other contains self, off-center
C4_Witness ==
    /\ IsRoundMerge
    /\ Returned
    /\ ~(self.radius >= CenterDistance + other.radius)
    /\ other.radius >= CenterDistance + self.radius
    /\ CenterDistance > 0
    /\ out = other

\* the circle / sphere c encloses the circle / sphere x: every point of x is
\* within c (the distance of the centers is at most c.radius - x.radius)
Encloses(c, x) ==
    /\ c.radius >= x.radius
    /\ distance_squared(c.center, x.center)
          <= (c.radius - x.radius) * (c.radius - x.radius)

\* C5: the merged volume is the smallest of its kind around both operands:
\* the merged box is the componentwise min of the minimums and max of the
\* maximums and lies inside every box that contains both operands; no circle
\* / sphere that contains both operands has a smaller radius than the merged
\* one.
C5_MergeSmallest ==
    /\ IsBoxMerge =>
          /\ \A i \in DOMAIN out.min :
                /\ out.min[i] <= self.min[i] /\ out.min[i] <= other.min[i]
                /\ out.min[i] \in {self.min[i], other.min[i]}
                /\ out.max[i] >= self.max[i] /\ out.max[i] >= other.max[i]
                /\ out.max[i] \in {self.max[i], other.max[i]}
          /\ op = "Aabb2d::merged" =>
                \A c \in Aabb2ds :
                    Aabb2d_contains(c, self) /\ Aabb2d_contains(c, other)
                        => Aabb2d_contains(c, out)
          /\ op = "Aabb3d::merge" =>
                \A c \in Aabb3ds :
                    Aabb3d_contains(c, self) /\ Aabb3d_contains(c, other)
                        => Aabb3d_contains(c, out)
    /\ IsRoundMerge =>
          \A c \in (IF op = "BoundingCircle::merged" THEN BoundingCircles
                                                      ELSE BoundingSpheres) :
                Encloses(c, self) /\ Encloses(c, other) => c.radius >= out.radius

\* a constructed merged circle / sphere, and another volume of the grid
\* around both operands
C5_Witness ==
    /\ IsRoundMerge
    /\ Returned
    /\ NeitherContains
    /\ \E c \in (IF op = "BoundingCircle::merged" THEN BoundingCircles
                                                   ELSE BoundingSpheres) :
          /\ Encloses(c, self) /\ Encloses(c, other)
          /\ c.radius > out.radius

IsGrow ==
    op \in {"Aabb2d::padded", "Aabb3d::grow", "BoundingCircle::padded", "BoundingSphere::grow"}

IsShrink ==
    op \in {"Aabb2d::shrunk", "Aabb3d::shrink", "BoundingCircle::shrunk", "BoundingSphere::shrink"}

\* every component of the amount of the call is > 0
AmountPositive ==
    CASE op \in {"Aabb2d::padded", "Aabb2d::shrunk"}
            -> \A s \in 1 .. 2 : \A i \in 1 .. 2 : amount[s][i] > 0
      [] op \in {"Aabb3d::grow", "Aabb3d::shrink"}
            -> \A i \in 1 .. 3 : amount[i] > 0
      [] OTHER -> amount > 0

\* the precondition of shrunk / shrink: the shrunk box keeps min <= max, the
\* amount is not above the radius
ShrinkPrecondition ==
    CASE op = "Aabb2d::shrunk"
            -> \A i \in 1 .. 2 : self.min[i] + amount[1][i] <= self.max[i] - amount[2][i]
      [] op = "Aabb3d::shrink"
            -> \A i \in 1 .. 3 : self.min[i] + amount[i] <= self.max[i] - amount[i]
      [] OTHER -> amount <= self.radius

\* C6: a volume padded / grown by an amount that is > 0 in every component
\* contains the original and is not contained in it.
C6_PaddingGrowsStrictly ==
    IsGrow /\ AmountPositive =>
        /\ Returned
        /\ ContainsOfKind(out, self)
        /\ ~ContainsOfKind(self, out)

\* a 2D box padded by different positive amounts on its four sides
C6_Witness ==
    /\ op = "Aabb2d::padded"
    /\ AmountPositive
    /\ Returned
    /\ amount[1] # amount[2]
    /\ amount[1][1] # amount[1][2]
    /\ out # self

\* C7: a volume shrunk by an amount > 0 within the precondition is contained
\* in the original and does not contain it; a circle / sphere keeps its
\* center.
C7_ShrinkingShrinksStrictly ==
    IsShrink /\ AmountPositive /\ ShrinkPrecondition =>
        /\ Returned
        /\ ContainsOfKind(self, out)
        /\ ~ContainsOfKind(out, self)
        /\ op \in {"BoundingCircle::shrunk", "BoundingSphere::shrink"} =>
              out.center = self.center

\* a sphere shrunk to a smaller, still positive radius
C7_Witness ==
    /\ op = "BoundingSphere::shrink"
    /\ AmountPositive /\ ShrinkPrecondition
    /\ Returned
    /\ out.radius > 0 /\ out.radius < self.radius

\* the operands of a box intersection test share only a boundary: their
\* extents meet in a point on some axis and overlap or meet on the others
TouchOnly ==
    /\ \A i \in 1 .. 3 : self.min[i] <= other.max[i] /\ other.min[i] <= self.max[i]
    /\ \E i \in 1 .. 3 : self.max[i] = other.min[i] \/ other.max[i] = self.min[i]

\* C8: Aabb3d a.intersects(b) is true iff a.min < b.max and a.max > b.min
\* strictly on every axis; boxes that share only a boundary do not intersect;
\* the test is symmetric.
C8_BoxIntersectsStrict ==
    op = "Aabb3d::intersects" =>
        /\ ret = (/\ self.min[1] < other.max[1] /\ self.max[1] > other.min[1]
                  /\ self.min[2] < other.max[2] /\ self.max[2] > other.min[2]
                  /\ self.min[3] < other.max[3] /\ self.max[3] > other.min[3])
        /\ TouchOnly => ~ret
        /\ ret = Aabb3d_intersects(other, self)

\* a box of positive volume and a box on one of its faces: a.max.x = b.min.x
C8_Witness ==
    /\ op = "Aabb3d::intersects"
    /\ TouchOnly
    /\ \A i \in 1 .. 3 : self.min[i] < self.max[i]
    /\ self.max[1] = other.min[1]
    /\ \A i \in 2 .. 3 : other.min[i] < other.max[i]
    /\ ~ret

\* C9: BoundingSphere a.intersects(b) is true iff the squared distance of the
\* centers is <= a.radius + b.radius, the sum of the radii not squared.
C9_SphereIntersectsUnsquared ==
    op = "BoundingSphere::intersects" =>
        ret = ((other.center[1] - self.center[1]) * (other.center[1] - self.center[1])
               + (other.center[2] - self.center[2]) * (other.center[2] - self.center[2])
               + (other.center[3] - self.center[3]) * (other.center[3] - self.center[3])
                  <= Scale * (self.radius + other.radius))

\* two spheres whose centers are closer than the sum of their radii and that
\* are reported as not intersecting
C9_Witness ==
    /\ op = "BoundingSphere::intersects"
    /\ distance_squared(self.center, other.center)
          < (self.radius + other.radius) * (self.radius + other.radius)
    /\ ~ret

\* C10: BoundingSphere::contains agrees with the formulation of
\* BoundingCircle::contains, distance + b.radius <= a.radius (where the
\* distance is representable), and is false when b.radius > a.radius.
C10_ContainsFormsAgree ==
    op = "BoundingSphere::contains" =>
        /\ Sqrt_exact(distance_squared(self.center, other.center)) =>
              ret = (CenterDistance + other.radius <= self.radius)
        /\ other.radius > self.radius => ~ret

\* a sphere that is not contained in a smaller one around it although the
\* squared distance is below the squared difference of the radii
C10_Witness ==
    /\ op = "BoundingSphere::contains"
    /\ other.radius > self.radius
    /\ self.center # other.center
    /\ distance_squared(self.center, other.center)
          <= (self.radius - other.radius) * (self.radius - other.radius)
    /\ ~ret

IsFromPointCloud ==
    op \in {"Aabb3d::from_point_cloud", "BoundingSphere::from_point_cloud"}

\* the points of a from_point_cloud call, rotated and then translated
TransformedPoints ==
    {VAdd(Quat_mul_vec3(other.rotation, self[n]), other.translation) : n \in DOMAIN self}

\* C11: for a non-empty sequence of points Aabb3d::from_point_cloud returns
\* the box of the rotated and translated points: min <= max, every
\* transformed point is inside, and each of the six bounds is attained by a
\* transformed point.
C11_BoxOfPointCloud ==
    op = "Aabb3d::from_point_cloud" /\ Len(self) >= 1 =>
        /\ Returned
        /\ \A i \in 1 .. 3 :
              /\ out.min[i] <= out.max[i]
              /\ \A p \in TransformedPoints : out.min[i] <= p[i] /\ p[i] <= out.max[i]
              /\ \E p \in TransformedPoints : p[i] = out.min[i]
              /\ \E p \in TransformedPoints : p[i] = out.max[i]

\* three points, rotated and translated, whose box has a positive volume and
\* has none of the points at its min or max corner
C11_Witness ==
    /\ op = "Aabb3d::from_point_cloud"
    /\ Returned
    /\ Len(self) = 3
    /\ other.rotation # IDENTITY /\ other.translation # ZERO
    /\ \A i \in 1 .. 3 : out.min[i] < out.max[i]
    /\ \A p \in TransformedPoints : p # out.min /\ p # out.max

\* C12: Aabb3d::from_point_cloud and BoundingSphere::from_point_cloud fail
\* for the empty sequence of points and return no volume; for a non-empty
\* sequence they never fail.
C12_EmptyCloudFails ==
    IsFromPointCloud =>
        /\ Len(self) = 0 => failed /\ out = NoVolume
        /\ Len(self) >= 1 => ~failed /\ ~panicked /\ out # NoVolume

\* a sphere asked for around no point
C12_Witness ==
    /\ op = "BoundingSphere::from_point_cloud"
    /\ Len(self) = 0
    /\ failed

\* C13 as stated: the empty point cloud is checked by debug-only assertions,
\* so that the build without them returns a value for it.
C13_EmptyCloudUncheckedInRelease ==
    IsFromPointCloud /\ Len(self) = 0 => ~failed /\ out # NoVolume

\* C13 as amended: the empty point cloud is checked by an assert! / expect,
\* which every build keeps: the construction panics and returns no value
\* with or without debug assertions; no debug-only assertion of the two
\* constructions fails for any sequence of points.
C13_EmptyCloudCheckedInEveryBuild ==
    IsFromPointCloud =>
        /\ ~panicked
        /\ Len(self) = 0 => failed /\ out = NoVolume

\* a box asked for around no point
C13_Witness ==
    /\ op = "Aabb3d::from_point_cloud"
    /\ Len(self) = 0
    /\ failed /\ ~panicked

RECURSIVE SumOfPoints(_, _)
\* the sum of the first n points
SumOfPoints(points, n) ==
    IF n = 0 THEN ZERO ELSE VAdd(SumOfPoints(points, n - 1), points[n])

\* Len(self)^2 times the squared distance of the n-th point from the mean
ScaledDistanceSquared(n) ==
    distance_squared([i \in 1 .. 3 |-> Len(self) * self[n][i]], SumOfPoints(self, Len(self)))

Corners(b) ==
    {<<x, y, z>> : x \in {b.min[1], b.max[1]}, y \in {b.min[2], b.max[2]},
                   z \in {b.min[3], b.max[3]}}

\* the extent of the box of the call along axis i
Extent(i) == self.max[i] - self.min[i]

\* C15: the bounding sphere of a box has the midpoint of min and max as its
\* center and half the length of the diagonal as its radius (stated
\* multiplied through by 2), and the eight corners of the box are within it.
C15_BoundingSphereOfBox ==
    op = "Aabb3d::bounding_sphere" =>
        /\ Returned
        /\ \A i \in 1 .. 3 : 2 * out.center[i] = self.min[i] + self.max[i]
        /\ out.radius >= 0
        /\ 4 * out.radius * out.radius
              = Extent(1) * Extent(1) + Extent(2) * Extent(2) + Extent(3) * Extent(3)
        /\ \A corner \in Corners(self) :
              distance_squared(corner, out.center) <= out.radius * out.radius

\* a box of positive volume that does not start at the origin
C15_Witness ==
    /\ op = "Aabb3d::bounding_sphere"
    /\ Returned
    /\ \A i \in 1 .. 3 : Extent(i) > 0
    /\ self.min # ZERO
    /\ Cardinality({Extent(i) : i \in 1 .. 3}) > 1

\* C16 as stated: visible_area of a box is the total surface area
\* 2 * (w*h + w*d + h*d) of its extents (w, h, d).
C16_VisibleAreaIsSurfaceArea ==
    op = "Aabb3d::visible_area" =>
        out = 2 * (Extent(1) * Extent(2) + Extent(1) * Extent(3) + Extent(2) * Extent(3))

\* C16 as amended: visible_area of a box is w*h + w*d + h*d, half of the
\* total surface area; it is 12 for the box from (-1,-1,-1) to (1,1,1) and
\* 0.875 for the box from (0,0,0) to (1,0.5,0.25).
C16_VisibleAreaIsHalfSurfaceArea ==
    op = "Aabb3d::visible_area" =>
        /\ Returned
        /\ out = Extent(1) * Extent(2) + Extent(1) * Extent(3) + Extent(2) * Extent(3)
        /\ self = [min |-> <<0 - Scale, 0 - Scale, 0 - Scale>>, max |-> <<Scale, Scale, Scale>>]
              => out = 12 * Scale * Scale
        /\ self \in TestAreaAabb3d => 8 * out = 7 * Scale * Scale

\* the first box of aabb3d_tests::area
C16_Witness ==
    /\ op = "Aabb3d::visible_area"
    /\ self = [min |-> <<0 - Scale, 0 - Scale, 0 - Scale>>, max |-> <<Scale, Scale, Scale>>]
    /\ out = 12 * Scale * Scale

IsDirNew == op \in {"Dir2::new", "Dir2::new_and_length", "Dir3::new", "Dir3::new_and_length"}

\* a coordinate of the vector of the call is NaN / is +inf or -inf
HasNaN == \E i \in DOMAIN self : self[i].class = "nan"

HasInfinity == \E i \in DOMAIN self : self[i].class = "infinite"

\* C17: Dir2 / Dir3 new and new_and_length return Ok exactly when the length
\* of the vector is finite and > 0; the direction is then value / length
\* (stated multiplied through by the length) and new_and_length returns the
\* length as well.  Otherwise the error is NaN for a NaN length, else
\* Infinite for an infinite length, else Zero: a NaN coordinate gives NaN
\* even beside an infinite one, an infinite coordinate without a NaN gives
\* Infinite, the zero vector gives Zero.
C17_DirectionValidation ==
    IsDirNew =>
        LET len == f32_length(self)
        IN  /\ out.ok = (is_finite(len) /\ len.value > 0)
            /\ out.ok =>
                  /\ ~HasNaN /\ ~HasInfinity
                  /\ \E i \in DOMAIN self : self[i].value # 0
                  /\ len.value * len.value
                        = SumSq([i \in DOMAIN self |-> self[i].value], Len(self))
                  /\ \A i \in DOMAIN self : out.dir[i] * len.value = self[i].value * Scale
                  /\ out.err = "none"
                  /\ op \in {"Dir2::new_and_length", "Dir3::new_and_length"} =>
                        out.len = len.value
            /\ ~out.ok =>
                  out.err = (IF is_nan(len) THEN "NaN"
                             ELSE IF len.class = "infinite" THEN "Infinite"
                             ELSE "Zero")
            /\ HasNaN => ~out.ok /\ out.err = "NaN"
            /\ HasInfinity /\ ~HasNaN => ~out.ok /\ out.err = "Infinite"
            /\ (\A i \in DOMAIN self : self[i] = f32(0)) => ~out.ok /\ out.err = "Zero"
            /\ op = "Dir3::new_and_length"
                  /\ self = <<f32((13 * Scale) \div 2), f32(0), f32(0)>>
                  => out = Ok(<<Scale, 0, 0>>, (13 * Scale) \div 2)

\* a vector with a NaN coordinate beside an infinite one
C17_Witness ==
    /\ op = "Dir3::new"
    /\ HasNaN /\ HasInfinity
    /\ ~out.ok /\ out.err = "NaN"

\* C18: for a cone of base radius r >= 0 and height h >= 0 under the
\* identity rotation, aabb_3d returns min = translation + (-r, -h/2, -r) and
\* max = translation + (r, h/2, r) (the y bounds stated multiplied through by
\* 2), each bound being the coordinate of the support point along its signed
\* axis.
C18_ConeBoxIdentity ==
    /\ op = "Cone::aabb_3d"
    /\ other.rotation = IDENTITY
    /\ self.radius >= 0 /\ self.height >= 0
    =>  /\ Returned
        /\ out.min[1] = other.translation[1] - self.radius
        /\ out.min[3] = other.translation[3] - self.radius
        /\ out.max[1] = other.translation[1] + self.radius
        /\ out.max[3] = other.translation[3] + self.radius
        /\ 2 * (out.min[2] - other.translation[2]) = 0 - self.height
        /\ 2 * (out.max[2] - other.translation[2]) = self.height
        /\ \A dim \in 1 .. 3 :
              /\ out.max[dim] - other.translation[dim]
                    = cone_local_support_point(self, basis(dim, Scale))[dim]
              /\ out.min[dim] - other.translation[dim]
                    = cone_local_support_point(self, basis(dim, 0 - Scale))[dim]

\* a translated cone whose radius and half height are positive and differ
C18_Witness ==
    /\ op = "Cone::aabb_3d"
    /\ other.rotation = IDENTITY /\ other.translation # ZERO
    /\ self.radius > 0 /\ self.height > 0 /\ self.height # 2 * self.radius
    /\ \A i \in 1 .. 3 : out.min[i] < out.max[i]

\* the apex / cap centers and the extreme points of the rims of the cone or
\* conical frustum of the call, in its own frame
SolidPoints ==
    LET h  == Half(self.height)
        rb == IF op = "Cone::aabb_3d" THEN self.radius ELSE self.radius_bottom
        rt == IF op = "Cone::aabb_3d" THEN 0 ELSE self.radius_top
    IN  {<<0, h, 0>>, <<0, 0 - h, 0>>,
         <<rb, 0 - h, 0>>, <<0 - rb, 0 - h, 0>>, <<0, 0 - h, rb>>, <<0, 0 - h, 0 - rb>>,
         <<rt, h, 0>>, <<0 - rt, h, 0>>, <<0, h, rt>>, <<0, h, 0 - rt>>}

\* the point p of the shape of the call, rotated and translated
Placed(p) == VAdd(Quat_mul_vec3(other.rotation, p), other.translation)

\* C19 as stated: for every rotation and translation the box of a cone or
\* conical frustum has min <= max in every component and contains the
\* rotated and translated apex / cap centers and rim extreme points.
C19_SolidBoxContainsSolid ==
    op \in {"Cone::aabb_3d", "ConicalFrustum::aabb_3d"} =>
        \A i \in 1 .. 3 :
            /\ out.min[i] <= out.max[i]
            /\ \A p \in SolidPoints : out.min[i] <= Placed(p)[i] /\ Placed(p)[i] <= out.max[i]

\* C20 as stated, for a cylinder of positive height: the box of the cylinder
\* contains both cap centers translation +/- rotation * (0, half_height, 0)
\* for every rotation, and has the half extents (radius, half_height,
\* radius) under the identity.
C20_CylinderBoxContainsCylinder ==
    op = "Cylinder::aabb_3d" /\ self.half_height > 0 =>
        /\ ~nan
        /\ \A c \in {<<0, self.half_height, 0>>, <<0, 0 - self.half_height, 0>>} :
              \A i \in 1 .. 3 : out.min[i] <= Placed(c)[i] /\ Placed(c)[i] <= out.max[i]
        /\ other.rotation = IDENTITY =>
              /\ VSub(out.max, other.translation)
                    = <<self.radius, self.half_height, self.radius>>
              /\ VSub(other.translation, out.min)
                    = <<self.radius, self.half_height, self.radius>>

\* C21 as stated, for a frustum of positive height and bottom radius: for a
\* conical frustum with radius_top >= 0 and radius_bottom >= 0 (radius_top >
\* radius_bottom included) under the identity rotation, aabb_3d returns the box of half extent
\* max(radius_top, radius_bottom) along X and Z and height / 2 along Y about
\* the translation, so that the extreme points of both rims are inside it.
C21_FrustumBoxIdentity ==
    /\ op = "ConicalFrustum::aabb_3d"
    /\ other.rotation = IDENTITY
    /\ self.radius_top >= 0 /\ self.radius_bottom > 0 /\ self.height > 0
    =>  LET widest == IF self.radius_top > self.radius_bottom
                          THEN self.radius_top ELSE self.radius_bottom
        IN  /\ \A i \in {1, 3} :
                  /\ out.max[i] - other.translation[i] = widest
                  /\ other.translation[i] - out.min[i] = widest
            /\ 2 * (out.max[2] - other.translation[2]) = self.height
            /\ 2 * (other.translation[2] - out.min[2]) = self.height
            /\ \A p \in SolidPoints : \A i \in 1 .. 3 :
                  out.min[i] <= Placed(p)[i] /\ Placed(p)[i] <= out.max[i]

\* the half extent of the box of the call along axis i, measured from the
\* translation to max and to min
HalfExtentIs(i, h) ==
    /\ out.max[i] - other.translation[i] = h
    /\ other.translation[i] - out.min[i] = h

\* C22 as stated: for a Line3d whose rotated direction is exactly a signed
\* unit axis the box has half extent 0 along the two perpendicular axes and
\* the sentinel f32::MAX / 2 along the axis of the line; for a Plane3d whose
\* rotated normal is exactly a signed unit axis the half extent along that
\* axis, which the plane does not span, is 0; for a direction along no axis
\* every half extent is the sentinel.
C22_InfiniteShapeBoxes ==
    /\ op = "Line3d::aabb_3d" =>
          LET direction == Quat_mul_vec3(other.rotation, self.direction)
          IN  \A i \in 1 .. 3 :
                  IF \E j \in 1 .. 3 : j # i /\ parallel(direction, j)
                      THEN HalfExtentIs(i, 0)
                      ELSE HalfExtentIs(i, Half(F32_MAX))
    /\ op = "Plane3d::aabb_3d" =>
          LET normal == Quat_mul_vec3(other.rotation, self.normal)
          IN  \A i \in 1 .. 3 :
                  IF parallel(normal, i)
                      THEN HalfExtentIs(i, 0)
                      ELSE HalfExtentIs(i, Half(F32_MAX))

\* the extreme points of the torus of the call, in its own frame: on the
\* ring in the XZ plane and on the top and bottom of the tube
TorusPoints ==
    LET o == outer_radius(self)
    IN  {<<o, 0, 0>>, <<0 - o, 0, 0>>, <<0, 0, o>>, <<0, 0, 0 - o>>}
            \cup {<<x, y, 0>> : x \in {self.major_radius, 0 - self.major_radius},
                                y \in {self.minor_radius, 0 - self.minor_radius}}
            \cup {<<0, y, z>> : y \in {self.minor_radius, 0 - self.minor_radius},
                                z \in {self.major_radius, 0 - self.major_radius}}

\* C23 as stated, for a torus whose tube is no wider than its ring: for
\* every rotation and translation Torus::aabb_3d returns a box with min <=
\* max in every component, centered on the translation, that contains the
\* rotated torus; after a half turn about X the box is the box of the
\* identity rotation.
C23_TorusBox ==
    /\ op = "Torus::aabb_3d"
    /\ 0 < self.minor_radius /\ self.minor_radius <= self.major_radius
    =>
        /\ \A i \in 1 .. 3 :
              /\ out.min[i] <= out.max[i]
              /\ out.min[i] + out.max[i] = 2 * other.translation[i]
              /\ \A p \in TorusPoints :
                    out.min[i] <= Placed(p)[i] /\ Placed(p)[i] <= out.max[i]
        /\ other.rotation = from_rotation_x_half =>
              out = Torus_aabb_3d(self, other.translation, IDENTITY)

IsBoxResize == op \in {"Aabb2d::padded", "Aabb2d::shrunk", "Aabb3d::grow", "Aabb3d::shrink"}

IsRoundResize ==
    op \in {"BoundingCircle::padded", "BoundingCircle::shrunk",
            "BoundingSphere::grow", "BoundingSphere::shrink"}

\* some component of the amount of the call is < 0
AmountHasNegative ==
    CASE op \in {"Aabb2d::padded", "Aabb2d::shrunk"}
            -> \E s \in 1 .. 2 : \E i \in 1 .. 2 : amount[s][i] < 0
      [] op \in {"Aabb3d::grow", "Aabb3d::shrink"}
            -> \E i \in 1 .. 3 : amount[i] < 0
      [] OTHER -> amount < 0

C27_MergeNeverDividesByZero ==
    IsRoundMerge /\ self.radius >= 0 /\ other.radius >= 0 =>
        /\ ~nan
        /\ Returned
        /\ self.center = other.center =>
              out = IF self.radius >= other.radius THEN self ELSE other

\* two circles that are equal, of positive radius: both early returns apply
C27_Witness ==
    /\ op = "BoundingCircle::merged"
    /\ self = other
    /\ self.radius > 0
    /\ CenterDistance = 0
    /\ ~nan /\ ~panicked
    /\ out = self

\* C28: merge is commutative for every kind of volume: a.merge(b) is
\* b.merge(a), every intermediate value of which is representable as well;
\* this includes the operands for which both early returns of the circle /
\* sphere merge apply.
C28_MergeCommutative ==
    /\ op = "Aabb2d::merged" => out = Aabb2d_merged(other, self)
    /\ op = "Aabb3d::merge" => out = Aabb3d_merge(other, self)
    /\ op = "BoundingCircle::merged" =>
          /\ merge_exact(other, self)
          /\ out = BoundingCircle_merged(other, self)
    /\ op = "BoundingSphere::merge" =>
          /\ merge_exact(other, self)
          /\ out = BoundingSphere_merge(other, self)

\* two spheres of different radii neither of which contains the other: the
\* merged sphere is a new one, not centered between them
C28_Witness ==
    /\ op = "BoundingSphere::merge"
    /\ NeitherContains
    /\ self.radius # other.radius
    /\ out # self /\ out # other
    /\ 2 * out.center[1] # self.center[1] + other.center[1]

\* the volumes of the kind of the call
VolumesOfKind ==
    CASE op = "Aabb2d::contains" -> Aabb2ds
      [] op = "Aabb3d::contains" -> Aabb3ds
      [] op = "BoundingCircle::contains" -> BoundingCircles
      [] op = "BoundingSphere::contains" -> BoundingSpheres

\* the distance between the centers of two circles is representable
DistanceExact(x, y) ==
    op = "BoundingCircle::contains" => Sqrt_exact(distance_squared(x.center, y.center))

\* C29: containment is transitive for every kind of volume (a.contains(b)
\* and b.contains(c) imply a.contains(c)), and two volumes that contain each
\* other are equal: equal bounds, equal center and radius.
C29_ContainsIsAnOrder ==
    IsContains /\ ret =>
        /\ ContainsOfKind(other, self) => self = other
        /\ \A c \in VolumesOfKind :
              ContainsOfKind(other, c) /\ DistanceExact(self, c) => ContainsOfKind(self, c)

\* a circle that contains another circle, which contains a third one, the
\* three being different and not concentric
C29_Witness ==
    /\ op = "BoundingCircle::contains"
    /\ ret
    /\ self.center # other.center
    /\ \E c \in BoundingCircles :
          /\ c.center # other.center /\ c.center # self.center
          /\ ContainsOfKind(other, c)
          /\ ContainsOfKind(self, c)

\* C30 as stated: for spheres with radii >= 0, a.contains(b) implies
\* a.intersects(b) and b.intersects(a).
C30_ContainsImpliesIntersects ==
    /\ op = "BoundingSphere::contains"
    /\ self.radius >= 0 /\ other.radius >= 0
    /\ ret
    =>  /\ BoundingSphere_intersects(self, other)
        /\ BoundingSphere_intersects(other, self)

\* min <= max componentwise
BoxValid(b) == \A i \in DOMAIN b.min : b.min[i] <= b.max[i]

\* C25: the invariant min <= max of boxes is closed under the calls: in
\* every sequence of calls that starts from boxes with min <= max, every
\* receiver is a box with min <= max, and merge / merged, grow / padded by
\* amounts that are non-negative, shrink / shrunk within its precondition and
\* from_point_cloud of a non-empty sequence return a box with min <= max.
C25_BoxInvariantClosed ==
    /\ IsBoxMerge \/ IsBoxResize => BoxValid(self)
    /\ IsBoxMerge => BoxValid(other) /\ Returned /\ BoxValid(out)
    /\ IsBoxResize /\ IsGrow /\ ~AmountHasNegative => Returned /\ BoxValid(out)
    /\ IsBoxResize /\ IsShrink /\ ShrinkPrecondition => Returned /\ BoxValid(out)
    /\ op = "Aabb3d::from_point_cloud" /\ Len(self) >= 1 => Returned /\ BoxValid(out)

\* a box that an earlier call returned, none of the boxes the sequences
\* start from, shrunk by a positive amount down to no extent along an axis
C25_Witness ==
    /\ op = "Aabb3d::shrink"
    /\ self \notin Aabb3ds
    /\ \A i \in 1 .. 3 : amount[i] > 0
    /\ ShrinkPrecondition
    /\ \E i \in 1 .. 3 : out.min[i] = out.max[i]
    /\ \E i \in 1 .. 3 : out.min[i] < out.max[i]

\* C26: the invariant radius >= 0 of circles and spheres is closed under
\* the calls: in every sequence of calls that starts from radii >= 0, every
\* receiver has a radius >= 0, and new of a radius >= 0, merge / merged,
\* grow / padded by an amount >= 0, shrink / shrunk by an amount between 0
\* and the radius, from_point_cloud of a non-empty sequence and
\* Aabb3d::bounding_sphere return a radius >= 0.
C26_RadiusInvariantClosed ==
    /\ IsRoundMerge \/ IsRoundResize => self.radius >= 0
    /\ op \in {"BoundingCircle::new", "BoundingSphere::new"} /\ self.radius >= 0 =>
          Returned /\ out.radius >= 0
    /\ IsRoundMerge => other.radius >= 0 /\ Returned /\ out.radius >= 0
    /\ IsRoundResize /\ IsGrow /\ amount >= 0 => Returned /\ out.radius >= 0
    /\ IsRoundResize /\ IsShrink /\ 0 <= amount /\ amount <= self.radius =>
          Returned /\ out.radius >= 0
    /\ op = "BoundingSphere::from_point_cloud" /\ Len(self) >= 1 =>
          Returned /\ out.radius >= 0
    /\ op = "Aabb3d::bounding_sphere" => Returned /\ out.radius >= 0

\* a sphere that an earlier call returned, none of the spheres the sequences
\* start from, shrunk by its whole radius
C26_Witness ==
    /\ op = "BoundingSphere::shrink"
    /\ self \notin BoundingSpheres
    /\ amount > 0
    /\ amount = self.radius
    /\ out.radius = 0

=============================================================================
